---------------------------- MODULE Spec2Model ----------------------------
(***************************************************************************)
(* Track Finder Charts backend: the upload, vote, play, listing and       *)
(* winner-finalization handlers of the four server builds kept in the      *)
(* repository, over one shared store.                                      *)
(*                                                                         *)
(*   "v6"   src/server.js lines 1-263        (Full Build v6.0)             *)
(*   "v6b"  src/server.js lines 265-398      (second build, upload only)   *)
(*   "v25"  src/unnamed/part_000             (v2.5)                        *)
(*   "v5"   src/unnamed/part_001             (Version 5.0)                 *)
(*                                                                         *)
(* A request handler runs to its next await on a store call in one step:   *)
(* the store (tables upload_tokens/tokens, tracks and winners, and the     *)
(* blob buckets) is the only state requests share, and each store call is  *)
(* atomic.                                                                 *)
(* average_rating is kept as an exact fraction <<n, d>> in lowest terms:   *)
(* the double arithmetic of the code is modelled without its rounding.     *)
(***************************************************************************)
EXTENDS Integers, Sequences, FiniteSets

\* ---- bounds of the model ------------------------------------------------
MaxOps == 2        \* requests started in one behaviour
MaxPlays == 3      \* play requests started in one behaviour of SpecPlays

\* ---- the universe of inputs ---------------------------------------------
Builds == {"v6", "v6b", "v25", "v5"}
Slots == {1, 2}    \* requests in flight at once

\* upload_tokens rows: id |-> (email, token); ids are the row ids
TokenRows == <<[email |-> "a", token |-> "s1"], [email |-> "b", token |-> "s2"]>>
TokenIds == 1..Len(TokenRows)

\* (email, token) pairs a client may present; "" is a missing field
Credentials == {<<"a", "s1">>, <<"b", "s2">>, <<"a", "s2">>, <<"", "s1">>}

\* the admin secret of a deployment that has one; process.env.ADMIN_TOKEN
\* as a deployment may have it ("" is not set, which reads as undefined);
\* the x-admin-token headers a client may send ("" is no header, which
\* reads as undefined too)
AdminToken == "secret"
AdminConfigs == {AdminToken, ""}
AdminHeaders == {"", "secret", "wrong"}

\* genre of a track, as the upload form sends it
Genres == {"house", "techno"}

\* a score as it arrives in req.body: a JSON number, or a string (a form
\* field, or a JSON string) holding one decimal digit
NumScore(v) == [str |-> FALSE, val |-> v]
StrScore(v) == [str |-> TRUE, val |-> v]
ScoreInputs == {NumScore(0), NumScore(6), NumScore(8), NumScore(10),
                NumScore(11), StrScore(6)}

\* the closed scoring range of the specification (1-10)
ScoreRange == 1..10
MinScore == CHOOSE x \in ScoreRange : \A y \in ScoreRange : x <= y
MaxScore == CHOOSE x \in ScoreRange : \A y \in ScoreRange : y <= x

\* ---- exact fractions ----------------------------------------------------
RECURSIVE GCD(_, _)
GCD(a, b) == IF b = 0 THEN a ELSE GCD(b, a % b)

Frac(n, d) == LET g == GCD(n, d) IN IF g = 0 THEN <<0, 1>> ELSE <<n \div g, d \div g>>
Zero == <<0, 1>>

\* ---- JavaScript value semantics used by the handlers --------------------
\* !score: 0 is falsy; a non-empty string is truthy
Falsy(score) == ~score.str /\ score.val = 0

\* Number(score)
ToNumber(score) == score.val

\* x + score, x a number: numeric addition for a number, string
\* concatenation of String(x) and score for a string; the resulting string
\* is converted back by the division that follows.  x is a non-negative
\* integer whenever this is applied (see AverageIsSumOverCount), and score
\* has one digit.
JsPlus(x, score) ==
  IF score.str THEN
    CASE x[2] = 1 /\ x[1] >= 0 -> <<x[1] * 10 + score.val, 1>>
  ELSE Frac(x[1] + score.val * x[2], x[2])

\* builds that coerce with Number(score): part_000:155, part_001:185
Coerces(b) == b \in {"v25", "v5"}

\* the running mean written by POST /api/vote
NewAverage(b, avg, total, score) ==
  LET base == Frac(avg[1] * total, avg[2])
      sum == IF Coerces(b) THEN Frac(base[1] + ToNumber(score) * base[2], base[2])
             ELSE JsPlus(base, score)
  IN Frac(sum[1], sum[2] * (total + 1))

\* ---- routes of each build -----------------------------------------------
Endpoints(b) ==
  CASE b = "v6" -> {"upload", "vote", "play", "charts"}
    [] b = "v6b" -> {"upload"}
    [] b = "v25" -> {"upload", "vote", "charts", "finalize"}
    [] b = "v5" -> {"upload", "vote", "charts", "finalize"}

VARIABLES
  build,      \* which server build is deployed
  adminEnv,   \* process.env.ADMIN_TOKEN of the deployment, "" when not set
  tokens,     \* upload_tokens / tokens table: id -> used
  tracks,     \* tracks table, in insertion (created_at) order; id = index
  blobs,      \* number of objects in the storage buckets
  winners,    \* winners table, in insertion order
  req,        \* slot -> the request it carries
  ops,        \* requests started so far
  okUploads,  \* history: token id -> success responses of uploads it admitted
  okVotes,    \* history: track id -> success responses of votes
  okSum,      \* history: track id -> sum of the scores of those votes
  okPlays,    \* history: track id -> success responses of plays
  faulted,    \* history: some store or file-system call has failed
  strVoted    \* history: some accepted vote carried its score as a string

vars == <<build, adminEnv, tokens, tracks, blobs, winners, req, ops, okUploads, okVotes, okSum,
          okPlays, faulted, strVoted>>

\* (mutant) the insert writes a rating although there is no vote yet
NewTrackRated(b, art, tok, g) ==
  [total_votes |-> 0, average_rating |-> <<5, 1>>, play_count |-> 0,
   approved |-> b \in {"v6b", "v25"},
   artwork |-> art,
   genre |-> g,
   byToken |-> tok]

\* a track row as upload inserts it (counters zero; v6b leaves them to the
\* column default, which every reader takes through `|| 0`)
NewTrack(b, art, tok, g) ==
  [total_votes |-> 0, average_rating |-> Zero, play_count |-> 0,
   approved |-> b \in {"v6b", "v25"},
   artwork |-> art,
   genre |-> g,
   byToken |-> tok]

SeedTrack == [total_votes |-> 0, average_rating |-> Zero, play_count |-> 0,
              approved |-> TRUE, artwork |-> "default", genre |-> "house",
              byToken |-> 0]

Idle ==
  [kind |-> "none", pc |-> "idle", status |-> 0,
   art |-> FALSE, genre |-> "",
   tid |-> 0, score |-> NumScore(0),
   tok |-> 0, fullOk |-> TRUE,
   artUrl |-> "default",
   rTotal |-> 0, rAvg |-> Zero, rPlay |-> 0,
   muts |-> 0, flips |-> 0, flipOther |-> FALSE,
   notFound |-> FALSE, reuse |-> FALSE,
   trail |-> <<>>, lost |-> FALSE, artLost |-> FALSE, otherFault |-> FALSE,
   made |-> 0,
   qGenre |-> "", qLimit |-> 0, qOffset |-> 0, rows |-> <<>>,
   picked |-> <<>>, turn |-> 0, wrote |-> <<>>, hdr |-> ""]

Free(r) == req[r].pc = "idle"
Quiet == \A r \in Slots : Free(r)

\* A handler's last segment ends in res.json / res.status(..).json: Node
\* runs it to completion, so the answer is out before any other handler
\* moves.  The slot shows the outcome in pc = "done" until Respond frees it.
Running == \A q \in Slots : req[q].pc # "done"

\* a new request takes the lowest free slot (slots only carry requests)
Takes(r) == Running /\ Free(r) /\ \A q \in Slots : q < r => ~Free(q)

\* slot r is at the await named pc
At(r, pc) == Running /\ req[r].pc = pc

\* The store as a deployment finds it: the token rows issued and unused,
\* and one track row with zeroed counters, uploaded on a token that is not
\* among TokenRows (byToken = 0).
Init ==
  /\ build \in Builds
  /\ adminEnv = AdminToken
  /\ tokens = [t \in TokenIds |-> FALSE]
  /\ tracks = <<SeedTrack>>
  /\ blobs = 0
  /\ winners = <<>>
  /\ req = [r \in Slots |-> Idle]
  /\ ops = 0
  /\ okUploads = [t \in TokenIds |-> 0]
  /\ okVotes = <<0>>
  /\ okSum = <<0>>
  /\ okPlays = <<0>>
  /\ faulted = FALSE
  /\ strVoted = FALSE

\* the request of slot r has ended with this status; its locals are dropped
Finish(r, st) ==
  [Idle EXCEPT !.kind = req[r].kind, !.pc = "done", !.status = st,
               !.muts = req[r].muts, !.flips = req[r].flips,
               !.flipOther = req[r].flipOther,
               !.notFound = req[r].notFound, !.tok = req[r].tok,
               !.trail = req[r].trail, !.lost = req[r].lost,
               !.artLost = req[r].artLost, !.otherFault = req[r].otherFault,
               !.made = req[r].made]

\* ---- POST /api/upload-track ---------------------------------------------
\* builds whose token SELECT carries .eq("used", false)
UsedFilter(b) == b \in {"v6", "v6b", "v5"}

\* the row .maybeSingle() returns for (email, token), 0 for none
MatchRow(b, tk, e, s) ==
  LET rows == {t \in TokenIds : /\ TokenRows[t].email = e
                                /\ TokenRows[t].token = s
                                /\ (UsedFilter(b) => ~tk[t])}
  IN IF rows = {} THEN 0 ELSE CHOOSE t \in rows : TRUE

\* builds that check the required fields before they touch the store
ChecksFirst(b) == b \in {"v6", "v5"}

\* (mutant) the token is marked used as soon as it is found
ConsumeOnVerify(tk, t) == [tk EXCEPT ![t] = TRUE]

\* the token table after the admission SELECT: a read, nothing is written
AfterVerify(tk, t) == tk

\* status of a failed or empty token lookup
LookupErrorStatus(b) == IF b = "v6b" THEN 400 ELSE 500
NoTokenStatus(b) == IF b \in {"v6", "v5"} THEN 403 ELSE 400

\* artwork_url before any artwork upload
DefaultArt(b) == IF b \in {"v6", "v6b"} THEN "default" ELSE "none"

\* (mutant) the UPDATE writes the opposite of the flag it finds
ConsumeToggles(b, tk, t) == [tk EXCEPT ![t] = ~tk[t]]

\* the token table after the "mark token as used" UPDATE of build b
Consume(b, tk, t) ==
  IF b = "v6b"
  THEN [u \in TokenIds |-> IF /\ TokenRows[u].email = TokenRows[t].email
                            /\ TokenRows[u].token = TokenRows[t].token
                         THEN TRUE ELSE tk[u]]
  ELSE [tk EXCEPT ![t] = TRUE]

\* builds that mark the token used after the insert (part_000 never does)
Consumes(b) == b \in {"v6", "v6b", "v5"}

UploadStart(r, e, s, g, fieldsOk, hasFile, hasArt) ==
  /\ Takes(r)
  /\ "upload" \in Endpoints(build)
  /\ build = "v5" => ~hasArt       \* upload.single("file"): no artwork part
  /\ ops' = ops + 1
  /\ UNCHANGED <<build, adminEnv, winners, tracks, blobs, okUploads, okVotes, okSum, okPlays, strVoted>>
  /\ LET me == [Idle EXCEPT !.kind = "upload"]
         ended(st) == [me EXCEPT !.pc = "done", !.status = st]
     IN IF ChecksFirst(build) /\ (~fieldsOk \/ e = "" \/ s = "" \/ ~hasFile)
        THEN /\ req' = [req EXCEPT ![r] = ended(400)]
             /\ UNCHANGED <<tokens, faulted>>
        ELSE \E ok \in BOOLEAN :
               LET t == MatchRow(build, tokens, e, s)
                   tk == IF ok /\ t # 0 THEN AfterVerify(tokens, t) ELSE tokens
                   n == IF tk # tokens THEN 1 ELSE 0
               IN /\ faulted' = (faulted \/ ~ok)
                  /\ tokens' = tk
                  /\ req' = [req EXCEPT ![r] =
                       IF ~ok THEN [ended(LookupErrorStatus(build)) EXCEPT
                                      !.otherFault = TRUE]
                       ELSE IF t = 0 THEN ended(NoTokenStatus(build))
                       ELSE IF ~hasFile
                       THEN [ended(400) EXCEPT !.muts = n, !.tok = t,
                                               !.trail = <<"token">>]
                       ELSE [me EXCEPT !.pc = "blob", !.tok = t, !.art = hasArt,
                                       !.genre = g,
                                       !.trail = <<"token">>,
                                       !.artUrl = DefaultArt(build), !.muts = n,
                                       !.reuse = (okUploads[t] > 0)]]

\* builds in which a failed artwork upload is thrown (part_000:84)
ArtFailureFatal(b) == b = "v25"

\* builds in which a failed audio upload is thrown; v6 never reads the
\* error of its two uploads
AudioFailureThrown(b) == b # "v6"

\* The blob uploads, from the admission to the insert: (v6: the ffmpeg
\* preview, then full and preview together) the audio, then the artwork.
\* Nothing reads the buckets, so the uploads of one request are one step.
UploadBlobs(r) ==
  /\ At(r, "blob")
  /\ UNCHANGED <<build, adminEnv, winners, tokens, tracks, ops, okUploads, okVotes, okSum, okPlays, strVoted>>
  /\ \E ff \in BOOLEAN, full \in BOOLEAN, prev \in BOOLEAN, artOk \in BOOLEAN :
       LET audioThrown == ~ff \/ (AudioFailureThrown(build) /\ ~full)
           tryArt == req[r].art /\ ~audioThrown
           audioN == IF ~ff THEN 0
                     ELSE (IF full THEN 1 ELSE 0)
                          + (IF build = "v6" /\ prev THEN 1 ELSE 0)
           artN == IF tryArt /\ artOk THEN 1 ELSE 0
           thrown == audioThrown \/ (tryArt /\ ~artOk /\ ArtFailureFatal(build))
           n == audioN + artN
           audioBad == ~ff \/ ~full \/ ~prev
           artBad == tryArt /\ ~artOk
           trl == IF audioBad THEN req[r].trail ELSE Append(req[r].trail, "blob")
       IN /\ build # "v6" => (ff /\ prev)     \* no preview outside v6
          /\ ~ff => (full /\ prev)            \* nothing is uploaded after a throw
          /\ ~tryArt => artOk
          /\ blobs' = blobs + n
          /\ faulted' = (faulted \/ ~ff \/ ~full \/ ~prev \/ ~artOk)
          /\ req' = [req EXCEPT ![r] =
               IF thrown
               THEN [Finish(r, 500) EXCEPT !.muts = req[r].muts + n,
                                           !.trail = trl, !.artLost = artBad,
                                           !.otherFault = audioBad]
               ELSE [@ EXCEPT !.pc = "insert", !.muts = @ + n, !.art = FALSE,
                              !.fullOk = (full /\ prev),
                              !.trail = trl, !.artLost = artBad,
                              !.otherFault = audioBad,
                              !.artUrl = IF artN = 1 THEN "custom" ELSE @]]

\* (mutant) the insert's error is never read
InsertStatusUnread(b, ok) == 0

\* how the handler ends after the insert, 0 when it goes on: every build
\* has `if (insertErr) throw insertErr`
InsertStatus(b, ok) == IF ~ok THEN 500 ELSE 0

UploadInsert(r) ==
  /\ At(r, "insert")
  /\ UNCHANGED <<build, adminEnv, winners, tokens, blobs, ops, strVoted>>
  /\ IF build = "v6" /\ ~req[r].fullOk
     THEN \* fullUpload.data is null: the row literal throws a TypeError
          /\ req' = [req EXCEPT ![r] = Finish(r, 500)]
          /\ UNCHANGED <<tracks, okUploads, okVotes, okSum, okPlays, faulted>>
     ELSE \E ok \in BOOLEAN :
            /\ faulted' = (faulted \/ ~ok)
            /\ tracks' = IF ok THEN Append(tracks, NewTrack(build, req[r].artUrl, req[r].tok,
                                                         req[r].genre))
                         ELSE tracks
            /\ okVotes' = IF ok THEN Append(okVotes, 0) ELSE okVotes
            /\ okSum' = IF ok THEN Append(okSum, 0) ELSE okSum
            /\ okPlays' = IF ok THEN Append(okPlays, 0) ELSE okPlays
            /\ LET st == InsertStatus(build, ok)
                   me == IF ok
                         THEN [req[r] EXCEPT !.muts = @ + 1, !.trail = Append(@, "track"),
                                             !.made = Len(tracks) + 1]
                         ELSE [req[r] EXCEPT !.otherFault = TRUE]
               IN IF st # 0 THEN /\ req' = [req EXCEPT ![r] =
                                      [Finish(r, st) EXCEPT !.otherFault = TRUE]]
                                 /\ UNCHANGED okUploads
                  ELSE IF Consumes(build)
                       THEN /\ req' = [req EXCEPT ![r] = [me EXCEPT !.pc = "consume"]]
                            /\ UNCHANGED okUploads
                       ELSE /\ req' = [req EXCEPT ![r] =
                                 [Finish(r, 200) EXCEPT !.muts = me.muts,
                                                        !.trail = me.trail,
                                                        !.made = me.made]]
                            /\ okUploads' = [okUploads EXCEPT ![req[r].tok] = @ + 1]

\* mark the token used (its error is never read), clean up, notify, answer
UploadConsume(r) ==
  /\ At(r, "consume")
  /\ UNCHANGED <<build, adminEnv, winners, tracks, blobs, ops, okVotes, okSum, okPlays, strVoted>>
  /\ \E ok \in BOOLEAN, clean \in BOOLEAN :
       /\ build # "v6" => clean      \* only v6 unlinks temp files
       /\ LET t == req[r].tok
              tk == IF ok THEN Consume(build, tokens, t) ELSE tokens
              st == IF clean THEN 200 ELSE 500
              me == [req[r] EXCEPT
                       !.muts = @ + (IF tk # tokens THEN 1 ELSE 0),
                       !.flips = @ + Cardinality({u \in TokenIds : ~tokens[u] /\ tk[u]}),
                       !.flipOther = \E u \in TokenIds \ {t} : tk[u] # tokens[u],
                       !.trail = IF ok THEN Append(@, "used") ELSE @,
                       !.lost = ~ok,
                       !.otherFault = (@ \/ ~ok \/ ~clean)]
          IN /\ tokens' = tk
             /\ faulted' = (faulted \/ ~ok \/ ~clean)
             /\ req' = [req EXCEPT ![r] =
                  [Finish(r, st) EXCEPT !.muts = me.muts, !.flips = me.flips,
                                        !.flipOther = me.flipOther,
                                        !.trail = me.trail, !.lost = me.lost,
                                        !.otherFault = me.otherFault]]
             /\ okUploads' = IF st = 200 THEN [okUploads EXCEPT ![t] = @ + 1]
                             ELSE okUploads

\* ---- POST /api/vote -----------------------------------------------------
Known(tr, tid) == tid \in 1..Len(tr)

\* (mutant) a missing row is not an error: its fields read as `|| 0`
VoteReadStatusLax(b, ok, found) == IF ~ok THEN 500 ELSE 0

\* how the handler ends after its SELECT, 0 when it goes on to the update:
\* .single() reports a missing row as an error (500); part_001 uses
\* .maybeSingle() and answers 404 for a null row
VoteReadStatus(b, ok, found) ==
  IF ~ok THEN 500
  ELSE IF ~found THEN (IF b = "v5" THEN 404 ELSE 500)
  ELSE 0

\* builds that read the UPDATE's error (part_000:162, part_001:192)
ChecksUpdate(b) == b \in {"v25", "v5"}

VoteStart(r, tid, score) ==
  /\ Takes(r)
  /\ "vote" \in Endpoints(build)
  /\ ops' = ops + 1
  /\ UNCHANGED <<build, adminEnv, winners, tokens, tracks, blobs, okUploads, okVotes, okSum, okPlays, strVoted>>
  /\ LET me == [Idle EXCEPT !.kind = "vote"]
         ended(st) == [me EXCEPT !.pc = "done", !.status = st]
     IN IF tid = 0 \/ Falsy(score)
        THEN /\ req' = [req EXCEPT ![r] = ended(400)]
             /\ UNCHANGED faulted
        ELSE \E ok \in BOOLEAN :
               LET found == Known(tracks, tid)
                   st == VoteReadStatus(build, ok, found)
                   miss == ok /\ ~found
               IN /\ faulted' = (faulted \/ ~ok)
                  /\ req' = [req EXCEPT ![r] =
                       IF st # 0 THEN [ended(st) EXCEPT !.notFound = miss]
                       ELSE [me EXCEPT !.pc = "vwrite", !.tid = tid, !.score = score,
                               !.notFound = miss,
                               !.rTotal = IF found THEN tracks[tid].total_votes ELSE 0,
                               !.rAvg = IF found THEN tracks[tid].average_rating ELSE Zero]]

VoteWrite(r) ==
  /\ At(r, "vwrite")
  /\ UNCHANGED <<build, adminEnv, winners, tokens, blobs, ops, okUploads, okPlays>>
  /\ \E ok \in BOOLEAN :
       LET tid == req[r].tid
           hit == ok /\ Known(tracks, tid)
           st == IF ~ok /\ ChecksUpdate(build) THEN 500 ELSE 200
           counted == st = 200 /\ Known(tracks, tid)
       IN /\ tracks' = IF hit
                       THEN [tracks EXCEPT
                               ![tid].total_votes = req[r].rTotal + 1,
                               ![tid].average_rating =
                                  NewAverage(build, req[r].rAvg, req[r].rTotal, req[r].score)]
                       ELSE tracks
          /\ faulted' = (faulted \/ ~ok)
          /\ req' = [req EXCEPT ![r] =
               [Finish(r, st) EXCEPT !.muts = req[r].muts + (IF hit THEN 1 ELSE 0)]]
          /\ okVotes' = IF counted THEN [okVotes EXCEPT ![tid] = @ + 1] ELSE okVotes
          /\ okSum' = IF counted THEN [okSum EXCEPT ![tid] = @ + ToNumber(req[r].score)]
                      ELSE okSum
          /\ strVoted' = (strVoted \/ (st = 200 /\ req[r].score.str))

\* ---- POST /api/track-play/:id (v6) --------------------------------------
\* .single(): a failed read and a missing row both come back as error
PlayReadStatus(ok, found) == IF ~ok \/ ~found THEN 500 ELSE 0

PlayStart(r, tid) ==
  /\ Takes(r)
  /\ "play" \in Endpoints(build)
  /\ ops' = ops + 1
  /\ UNCHANGED <<build, adminEnv, winners, tokens, tracks, blobs, okUploads, okVotes, okSum, okPlays, strVoted>>
  /\ LET me == [Idle EXCEPT !.kind = "play"]
     IN \E ok \in BOOLEAN :
          LET found == Known(tracks, tid)
              st == PlayReadStatus(ok, found)
              miss == ok /\ ~found
          IN /\ faulted' = (faulted \/ ~ok)
             /\ req' = [req EXCEPT ![r] =
                  IF st # 0 THEN [me EXCEPT !.pc = "done", !.status = st, !.notFound = miss]
                  ELSE [me EXCEPT !.pc = "pwrite", !.tid = tid, !.notFound = miss,
                          !.rPlay = IF found THEN tracks[tid].play_count ELSE 0]]

PlayWrite(r) ==
  /\ At(r, "pwrite")
  /\ UNCHANGED <<build, adminEnv, winners, tokens, blobs, ops, okUploads, okVotes, okSum, strVoted>>
  /\ \E ok \in BOOLEAN :
       LET tid == req[r].tid
           hit == ok /\ Known(tracks, tid)
       IN /\ tracks' = IF hit THEN [tracks EXCEPT ![tid].play_count = req[r].rPlay + 1]
                       ELSE tracks
          /\ faulted' = (faulted \/ ~ok)
          /\ req' = [req EXCEPT ![r] =
               [Finish(r, 200) EXCEPT !.muts = req[r].muts + (IF hit THEN 1 ELSE 0)]]
          /\ okPlays' = IF Known(tracks, tid) THEN [okPlays EXCEPT ![tid] = @ + 1]
                        ELSE okPlays

\* ---- GET /api/charts (part_001: GET /api/tracks) -------------------------
\* a >= b on fractions
Geq(a, b) == a[1] * b[2] >= b[1] * a[2]

\* the orderings of a set of row ids
Perms(S) ==
  {f \in [1..Cardinality(S) -> S] :
     \A i \in DOMAIN f, j \in DOMAIN f : i # j => f[i] # f[j]}

\* builds whose listing carries .eq("approved", true)
ApprovedOnly(b) == b = "v25"

\* builds whose listing is ordered by average_rating, highest first; the
\* others order by created_at, newest first
ByRating(b) == b = "v6"

\* req.query.genre as sent: a genre, "all", or "" when absent
GenreQueries == Genres \cup {"all", ""}

\* the genre filter is applied
FiltersGenre(g) == g \notin {"", "all"}

\* ?limit= and ?offset= as sent
LimitInputs == 1..2
OffsetInputs == {0, 1, 3}

\* the rows the listing query selects
Matching(b, tr, g) ==
  {i \in 1..Len(tr) : /\ ApprovedOnly(b) => tr[i].approved
                      /\ FiltersGenre(g) => tr[i].genre = g}

\* the results the store may return: the selected rows in the order asked
\* for, rows equal on average_rating in any order (created_at is the
\* insertion order)
Listings(b, tr, g) ==
  {o \in Perms(Matching(b, tr, g)) :
     \A i \in DOMAIN o, j \in DOMAIN o :
       i < j => IF ByRating(b)
                THEN Geq(tr[o[i]].average_rating, tr[o[j]].average_rating)
                ELSE o[i] > o[j]}

\* the handler: one query, answered with all its rows; req.query.limit and
\* req.query.offset are never read
ChartsStart(r, g, lim, off) ==
  /\ Takes(r)
  /\ "charts" \in Endpoints(build)
  /\ ops' = ops + 1
  /\ UNCHANGED <<build, adminEnv, winners, tokens, tracks, blobs, okUploads, okVotes, okSum, okPlays, strVoted>>
  /\ LET me == [Idle EXCEPT !.kind = "charts", !.pc = "done",
                            !.qGenre = g, !.qLimit = lim, !.qOffset = off]
     IN \E ok \in BOOLEAN :
          /\ faulted' = (faulted \/ ~ok)
          /\ IF ok
             THEN \E o \in Listings(build, tracks, g) :
                    req' = [req EXCEPT ![r] = [me EXCEPT !.status = 200, !.rows = o]]
             ELSE req' = [req EXCEPT ![r] = [me EXCEPT !.status = 500]]

\* ---- POST /api/finalize-winners ------------------------------------------

\* builds that compare the header with ADMIN_TOKEN; part_000 checks nothing
ChecksAdmin(b) == b = "v5"

\* builds that select tracks; part_000 is a placeholder that answers at once
SelectsWinners(b) == b = "v5"

\* .limit(10)
WinnersLimit == 10

\* the results the store may return for select("*") ordered by
\* average_rating, highest first, cut to the limit: rows equal on
\* average_rating come in any order
TopRated(tr) ==
  {SubSeq(o, 1, IF Len(o) <= WinnersLimit THEN Len(o) ELSE WinnersLimit) :
     o \in {p \in Perms(1..Len(tr)) :
              \A i \in DOMAIN p, j \in DOMAIN p :
                i < j => Geq(tr[p[i]].average_rating, tr[p[j]].average_rating)}}

\* the winners row written for track id i as it was read
WinnerRow(tr, i) ==
  [track_id |-> i, average_rating |-> tr[i].average_rating,
   total_votes |-> tr[i].total_votes]

FinalizeStart(r, hdr) ==
  /\ Takes(r)
  /\ "finalize" \in Endpoints(build)
  /\ ops' = ops + 1
  /\ UNCHANGED <<build, adminEnv, winners, tokens, tracks, blobs, okUploads, okVotes, okSum,
                 okPlays, strVoted>>
  /\ LET me == [Idle EXCEPT !.kind = "finalize", !.hdr = hdr]
         ended(st) == [me EXCEPT !.pc = "done", !.status = st]
     IN IF ChecksAdmin(build) /\ hdr # adminEnv
        THEN /\ req' = [req EXCEPT ![r] = ended(401)]
             /\ UNCHANGED faulted
        ELSE IF ~SelectsWinners(build)
        THEN /\ req' = [req EXCEPT ![r] = ended(200)]
             /\ UNCHANGED faulted
        ELSE \E ok \in BOOLEAN :
               /\ faulted' = (faulted \/ ~ok)
               /\ IF ~ok THEN req' = [req EXCEPT ![r] = ended(500)]
                  ELSE \E o \in TopRated(tracks) :
                         LET got == [k \in DOMAIN o |-> WinnerRow(tracks, o[k])]
                         IN req' = [req EXCEPT ![r] =
                              IF o = <<>> THEN ended(200)   \* the loop runs no turn
                              ELSE [me EXCEPT !.pc = "winsert", !.picked = got]]

\* one turn of the loop: insert the next row read (the insert's error is
\* never read), and answer after the last
FinalizeInsert(r) ==
  /\ At(r, "winsert")
  /\ UNCHANGED <<build, adminEnv, tokens, tracks, blobs, ops, okUploads, okVotes, okSum,
                 okPlays, strVoted>>
  /\ \E ok \in BOOLEAN :
       LET k == req[r].turn + 1
           row == req[r].picked[k]
           w == IF ok THEN Append(req[r].wrote, row.track_id) ELSE req[r].wrote
           n == req[r].muts + (IF ok THEN 1 ELSE 0)
       IN /\ winners' = IF ok THEN Append(winners, row) ELSE winners
          /\ faulted' = (faulted \/ ~ok)
          /\ req' = [req EXCEPT ![r] =
               IF k = Len(req[r].picked)
               THEN [Finish(r, 200) EXCEPT !.picked = req[r].picked, !.wrote = w,
                                           !.muts = n, !.hdr = req[r].hdr]
               ELSE [@ EXCEPT !.turn = k, !.wrote = w, !.muts = n]]

\* ---- the server ---------------------------------------------------------
TrackIdInputs == 0..(Len(tracks) + 1)

\* the answer of slot r has been sent
Respond(r) ==
  /\ req[r].pc = "done"
  /\ req' = [req EXCEPT ![r] = Idle]
  /\ UNCHANGED <<build, adminEnv, winners, tokens, tracks, blobs, ops, okUploads, okVotes, okSum,
                 okPlays, faulted, strVoted>>

\* a request arrives, while fewer than max have been started
UploadArrives(r, max) ==
  /\ ops < max
  /\ \E c \in Credentials, g \in Genres, f \in BOOLEAN, h \in BOOLEAN, a \in BOOLEAN :
       UploadStart(r, c[1], c[2], g, f, h, a)

VoteArrives(r, max) ==
  /\ ops < max
  /\ \E tid \in TrackIdInputs, sc \in ScoreInputs : VoteStart(r, tid, sc)

PlayArrives(r, max) ==
  /\ ops < max
  /\ \E tid \in TrackIdInputs : PlayStart(r, tid)

ChartsArrives(r, max) ==
  /\ ops < max
  /\ \E g \in GenreQueries, lim \in LimitInputs, off \in OffsetInputs :
       ChartsStart(r, g, lim, off)

FinalizeArrives(r, max) ==
  /\ ops < max
  /\ \E hdr \in AdminHeaders : FinalizeStart(r, hdr)

Next ==
  \E r \in Slots :
    \/ UploadArrives(r, MaxOps)
    \/ VoteArrives(r, MaxOps)
    \/ PlayArrives(r, MaxOps)
    \/ UploadBlobs(r)
    \/ UploadInsert(r)
    \/ UploadConsume(r)
    \/ VoteWrite(r)
    \/ PlayWrite(r)
    \/ Respond(r)

Spec == Init /\ [][Next]_vars

\* requests handled one at a time: each ends before the next starts
UploadAlone(r) == Quiet /\ UploadArrives(r, MaxOps)
VoteAlone(r) == Quiet /\ VoteArrives(r, MaxOps)
PlayAlone(r) == Quiet /\ PlayArrives(r, MaxOps)

NextSeq ==
  \E r \in Slots :
    \/ UploadAlone(r)
    \/ VoteAlone(r)
    \/ PlayAlone(r)
    \/ UploadBlobs(r)
    \/ UploadInsert(r)
    \/ UploadConsume(r)
    \/ VoteWrite(r)
    \/ PlayWrite(r)
    \/ Respond(r)

SpecSeq == Init /\ [][NextSeq]_vars

\* the server under play requests alone
NextPlays ==
  \E r \in Slots :
    \/ PlayArrives(r, MaxPlays)
    \/ PlayWrite(r)
    \/ Respond(r)

SpecPlays == Init /\ [][NextPlays]_vars

\* the server under uploads, votes and listings
NextCharts ==
  \E r \in Slots :
    \/ UploadArrives(r, MaxOps)
    \/ VoteArrives(r, MaxOps)
    \/ ChartsArrives(r, MaxOps)
    \/ UploadBlobs(r)
    \/ UploadInsert(r)
    \/ UploadConsume(r)
    \/ VoteWrite(r)
    \/ Respond(r)

SpecCharts == Init /\ [][NextCharts]_vars

\* ---- winner finalization over a store of rated tracks --------------------
MaxTracks == 2     \* track rows in the store of SpecWinners

\* track row t after votes with these scores, one after the other
RECURSIVE Voted(_, _, _)
Voted(b, t, scores) ==
  IF scores = <<>> THEN t
  ELSE Voted(b, [t EXCEPT !.total_votes = @ + 1,
                          !.average_rating =
                             NewAverage(b, t.average_rating, t.total_votes, Head(scores))],
             Tail(scores))

\* votes cast on a track before finalization
VoteHistories == {<<>>, <<NumScore(10)>>, <<NumScore(8), NumScore(8)>>}

\* the stores finalization may find: up to MaxTracks rows, each uploaded
\* and then voted on
Stores(b) ==
  UNION {[1..n -> {Voted(b, SeedTrack, h) : h \in VoteHistories}] : n \in 0..MaxTracks}

InitWinners ==
  /\ build \in {b \in Builds : "finalize" \in Endpoints(b)}
  /\ adminEnv \in AdminConfigs
  /\ tokens = [t \in TokenIds |-> FALSE]
  /\ tracks \in Stores(build)
  /\ blobs = 0
  /\ winners = <<>>
  /\ req = [r \in Slots |-> Idle]
  /\ ops = 0
  /\ okUploads = [t \in TokenIds |-> 0]
  /\ okVotes = [i \in DOMAIN tracks |-> tracks[i].total_votes]
  /\ okSum = [i \in DOMAIN tracks |->
               (tracks[i].average_rating[1] * tracks[i].total_votes)
                 \div tracks[i].average_rating[2]]
  /\ okPlays = [i \in DOMAIN tracks |-> 0]
  /\ faulted = FALSE
  /\ strVoted = FALSE

NextWinners ==
  \E r \in Slots :
    \/ FinalizeArrives(r, MaxOps)
    \/ FinalizeInsert(r)
    \/ Respond(r)

SpecWinners == InitWinners /\ [][NextWinners]_vars

\* ---- properties ---------------------------------------------------------
TrackIds == 1..Len(tracks)

Ended(r, kind) == req[r].pc = "done" /\ req[r].kind = kind

\* average_rating * n = sum, on fractions
MeanIs(avg, n, sum) == avg[1] * n = sum * avg[2]

\* every stored average is an integer sum over the stored count
AverageIsSumOverCount ==
  \A i \in TrackIds :
    LET a == tracks[i].average_rating
        x == Frac(a[1] * tracks[i].total_votes, a[2])
    IN x[2] = 1 /\ x[1] >= 0

\* C1: single use under concurrency.  In build v6, with no store call ever
\* failing, no token admits more than one upload that answers success, and
\* no token has more than one track row inserted on its admission.
C1_SingleUse ==
  (build = "v6" /\ ~faulted) =>
    \A t \in TokenIds :
      /\ okUploads[t] <= 1
      /\ Cardinality({i \in TrackIds : tracks[i].byToken = t}) <= 1

\* C2: mean correctness under concurrency.  With no store call ever failing
\* and every score a JSON number, once all requests have been answered each
\* track has total_votes = n and average_rating * n = v1 + ... + vn over the
\* n votes answered with success.
C2_MeanExact ==
  (~faulted /\ ~strVoted /\ Quiet) =>
    \A i \in TrackIds :
      /\ tracks[i].total_votes = okVotes[i]
      /\ MeanIs(tracks[i].average_rating, okVotes[i], okSum[i])

\* C3: play-count exactness.  With no store call ever failing, once all
\* requests have been answered each track's play_count is the number of play
\* requests on it answered with success.
C3_PlayExact ==
  (~faulted /\ Quiet) => \A i \in TrackIds : tracks[i].play_count = okPlays[i]

\* C4: sequential reuse is rejected.  With no store call ever failing, no
\* upload is admitted on a token after an upload admitted on that token has
\* been answered with success.
C4_NoReuse == ~faulted => \A r \in Slots : ~req[r].reuse

\* C5: incremental mean, sequential case (checked under SpecSeq, where each
\* request ends before the next starts).  With no store call ever failing,
\* after votes v1..vn answered with success a track has total_votes = n and
\* average_rating = (v1 + ... + vn) / n.
C5_SequentialMean ==
  (~faulted /\ Quiet) =>
    \A i \in TrackIds :
      /\ tracks[i].total_votes = okVotes[i]
      /\ tracks[i].total_votes > 0 =>
           tracks[i].average_rating = Frac(okSum[i], okVotes[i])

\* C6: play_count monotonicity.  No step lowers a track's play_count.
C6_PlayMonotone ==
  [][\A i \in TrackIds : tracks'[i].play_count >= tracks[i].play_count]_vars

\* C7: score validation.  Every track with total_votes > 0 has its
\* average_rating within the closed scoring range.
C7_AverageInRange ==
  \A i \in TrackIds :
    tracks[i].total_votes > 0 =>
      /\ MinScore * tracks[i].average_rating[2] <= tracks[i].average_rating[1]
      /\ tracks[i].average_rating[1] <= MaxScore * tracks[i].average_rating[2]

\* the store: what requests share
store == <<tokens, tracks, blobs, winners>>

\* C8: unknown track.  A vote or play request whose track id matches no
\* stored track is answered in the step that finds this out, with an error
\* status, and that step leaves the store as it was; no request that found
\* its track missing is ever in flight, or answered with success, or counted
\* as having written.
C8_UnknownTrack ==
  /\ [](\A r \in Slots :
          req[r].notFound =>
            /\ req[r].pc = "done"
            /\ req[r].kind \in {"vote", "play"}
            /\ req[r].status \in {404, 500}
            /\ req[r].muts = 0)
  /\ [][\A r \in Slots :
          (req'[r].notFound /\ ~req[r].notFound) => store' = store]_vars

C8_Witness ==
  \E r \in Slots : req[r].pc = "done" /\ req[r].notFound /\ Len(tracks) > 1

\* C9: exactly one token mutation per successful upload.  With no store call
\* ever failing, an upload answered with success has turned exactly one
\* token row from used = false to used = true and changed no other row.
C9_OneTokenMutation ==
  ~faulted =>
    \A r \in Slots :
      (Ended(r, "upload") /\ req[r].status = 200) =>
        req[r].flips = 1 /\ ~req[r].flipOther

\* C10: zero mutations on failed validation.  An upload is answered 400 or
\* 403 (missing fields or file, no matching token row, token already used)
\* only in the step in which it arrived, that step leaves every token row,
\* every track row and the blob store as they were, and the request is
\* never counted as having written.
C10_RejectedNoMutation ==
  /\ [](\A r \in Slots :
          (Ended(r, "upload") /\ req[r].status \in {400, 403}) => req[r].muts = 0)
  /\ [][\A r \in Slots :
          (req[r].pc # "done" /\ req'[r].pc = "done" /\ req'[r].kind = "upload"
             /\ req'[r].status \in {400, 403})
          => (req[r].pc = "idle" /\ store' = store)]_vars

C10_Witness ==
  \E r \in Slots, t \in TokenIds :
    /\ Ended(r, "upload") /\ req[r].status = 403
    /\ tokens[t] /\ okUploads[t] = 1

\* C11: token lifecycle is one-way.  No step turns a token row's used flag
\* from true back to false, and the token table holds the same rows in
\* every reachable state: no row is ever deleted.
C11_TokenOneWay ==
  /\ [](DOMAIN tokens = TokenIds)
  /\ [][\A t \in TokenIds : tokens[t] => tokens'[t]]_vars

\* a second upload admitted on the same token has run its UPDATE on a row
\* that was already used, and the row is still used
C11_Witness ==
  \E r \in Slots :
    /\ Ended(r, "upload") /\ req[r].status = 200
    /\ req[r].muts > 0 /\ req[r].flips = 0
    /\ req[r].tok # 0 /\ tokens[req[r].tok]

\* the steps of one upload, in the order of the handler's awaits
StepOrder == <<"token", "blob", "track", "used">>

IsPrefix(s, t) == Len(s) <= Len(t) /\ \A i \in 1..Len(s) : s[i] = t[i]

\* C12: upload step ordering.  In build v6 the steps an upload request has
\* committed are always an initial part of the order token validated, audio
\* stored, track inserted, token marked used (so no step commits before the
\* one ahead of it has), and an upload answered with success has committed
\* all four before its answer.
C12_StepOrder ==
  build = "v6" =>
    \A r \in Slots :
      /\ IsPrefix(req[r].trail, StepOrder)
      /\ (Ended(r, "upload") /\ req[r].status = 200) => req[r].trail = StepOrder

\* C13: partial failure is surfaced.  An upload whose token-used write
\* failed after its track row was inserted is not answered with success.
C13_PartialSurfaced ==
  \A r \in Slots :
    (Ended(r, "upload") /\ req[r].lost) => req[r].status # 200

\* C14: artwork failure degrades gracefully.  An upload whose audio was
\* stored, whose artwork write failed and which met no other failure is
\* answered with success, having inserted its track row with the default
\* placeholder artwork and marked its token used.
C14_ArtworkDegrades ==
  \A r \in Slots :
    (Ended(r, "upload") /\ req[r].artLost /\ ~req[r].otherFault) =>
      /\ req[r].status = 200
      /\ req[r].trail = StepOrder
      /\ req[r].made \in TrackIds
      /\ tracks[req[r].made].artwork = "default"

\* C15: the public listing shows approved tracks only.  Every row in a
\* listing answered with success has approved = true.
C15_ApprovedOnly ==
  \A r \in Slots :
    (Ended(r, "charts") /\ req[r].status = 200) =>
      \A k \in DOMAIN req[r].rows : tracks[req[r].rows[k]].approved

\* the largest page the specification lets a listing return
PageMax == 50

Min(a, b) == IF a <= b THEN a ELSE b

\* C16: bounded pages.  A listing asked with limit and offset and answered
\* with success returns positions offset+1 .. offset+min(limit, PageMax)
\* of the ordered result (in one of the orders the store may return): at
\* most limit rows, and none when offset is at or beyond the result count.
C16_BoundedPage ==
  \A r \in Slots :
    (Ended(r, "charts") /\ req[r].status = 200) =>
      \E o \in Listings(build, tracks, req[r].qGenre) :
        req[r].rows = SubSeq(o, req[r].qOffset + 1,
                             Min(Len(o), req[r].qOffset + Min(req[r].qLimit, PageMax)))

\* average_rating * total_votes + play_count, as a fraction
Composite(t) ==
  Frac(t.average_rating[1] * t.total_votes + t.play_count * t.average_rating[2],
       t.average_rating[2])

\* track i ranks ahead of track j: higher composite score, then more
\* votes, then earlier created_at (ids follow created_at)
Ahead(tr, i, j) ==
  LET ci == Composite(tr[i])
      cj == Composite(tr[j])
  IN \/ ~Geq(cj, ci)
     \/ /\ ci = cj
        /\ \/ tr[i].total_votes > tr[j].total_votes
           \/ tr[i].total_votes = tr[j].total_votes /\ i < j

\* the winner the specification asks for
Best(tr) == CHOOSE i \in DOMAIN tr : \A j \in DOMAIN tr \ {i} : Ahead(tr, i, j)

\* C17: winner selection by composite score (checked under SpecWinners,
\* where no track changes).  Every row in the winners table is the track
\* with the highest average_rating * total_votes + play_count, ties going
\* to more votes and then to the earlier track; and a finalization over a
\* store with tracks, answered with success with no store call ever having
\* failed, has recorded that track.
C17_CompositeWinner ==
  /\ \A k \in DOMAIN winners : winners[k].track_id = Best(tracks)
  /\ \A r \in Slots :
       (Ended(r, "finalize") /\ req[r].status = 200 /\ tracks # <<>> /\ ~faulted)
         => req[r].wrote = <<Best(tracks)>>

\* C18: empty track set.  In part_001, while the track store holds no
\* tracks, no finalization is answered with success and the winners table
\* stays empty.
C18_NoEligibleTracks ==
  (build = "v5" /\ tracks = <<>>) =>
    /\ winners = <<>>
    /\ \A r \in Slots : Ended(r, "finalize") => req[r].status # 200

\* authorised finalization r has made its selection
Selected(r) ==
  /\ req[r].kind = "finalize"
  /\ req[r].pc = "winsert" \/ (req[r].pc = "done" /\ req[r].status = 200)

\* C19: winner determinism (checked under SpecWinners, where no track
\* changes).  In part_001 any two authorised finalizations that have made
\* their selection have selected the same tracks in the same order.
C19_SameSelection ==
  build = "v5" =>
    \A r \in Slots, q \in Slots :
      (Selected(r) /\ Selected(q)) =>
        [k \in DOMAIN req[r].picked |-> req[r].picked[k].track_id]
          = [k \in DOMAIN req[q].picked |-> req[q].picked[k].track_id]

\* C20: no votes means zero rating.  In every reachable state every track
\* with total_votes = 0 has average_rating = 0.
C20_UnvotedIsZero ==
  \A i \in TrackIds :
    tracks[i].total_votes = 0 => tracks[i].average_rating = Zero

\* a track inserted by an upload has no vote yet, next to a voted track
C20_Witness ==
  \E i \in TrackIds, j \in TrackIds :
    /\ tracks[i].byToken # 0 /\ tracks[i].total_votes = 0
    /\ tracks[i].average_rating = Zero
    /\ tracks[j].total_votes > 0

\* C21: vote success implies a committed update.  A vote answered with
\* success has had its write of total_votes and average_rating committed
\* (so the success responses for a track never outnumber the committed
\* vote writes).
C21_VoteCommitted ==
  \A r \in Slots :
    (Ended(r, "vote") /\ req[r].status = 200) => req[r].muts = 1

\* C22: a consumed token always has its track.  In every reachable state a
\* token row with used = true has a track row inserted by a request admitted
\* on it; and an upload that ended without having inserted its track row
\* has turned no token row to used.
C22_UsedHasTrack ==
  /\ \A t \in TokenIds :
       tokens[t] => \E i \in TrackIds : tracks[i].byToken = t
  /\ \A r \in Slots :
       (Ended(r, "upload") /\ req[r].made = 0) => req[r].flips = 0

\* one upload has consumed its token and left its track, another, admitted
\* on the other token, has failed at the uploads or at the insert and its
\* token is still unused
C22_Witness ==
  \E r \in Slots, t \in TokenIds :
    /\ tokens[t] /\ \E i \in TrackIds : tracks[i].byToken = t
    /\ Ended(r, "upload") /\ req[r].status = 500 /\ req[r].made = 0
    /\ req[r].tok \in TokenIds \ {t} /\ ~tokens[req[r].tok]

\* C23: a failure response means nothing was persisted.  An upload answered
\* 400, 403 or 500 has inserted no track row and has turned no token row to
\* used.
C23_FailureLeavesNothing ==
  \A r \in Slots :
    (Ended(r, "upload") /\ req[r].status \in {400, 403, 500}) =>
      req[r].made = 0 /\ req[r].flips = 0

\* the header is absent, or differs from the configured secret, or no
\* secret is configured
Unauthorised(h, env) == h = "" \/ env = "" \/ h # env

\* C24: winner finalization is admin-gated.  In part_001, under every
\* configuration of ADMIN_TOKEN, set or not, a finalization whose
\* x-admin-token header is absent or differs from the configured secret is
\* answered 401 in the step in which it arrives and has appended no winner
\* row.
C24_AdminGated ==
  build = "v5" =>
    \A r \in Slots :
      (req[r].kind = "finalize" /\ Unauthorised(req[r].hdr, adminEnv)) =>
        /\ req[r].pc = "done" /\ req[r].status = 401
        /\ req[r].wrote = <<>>

=============================================================================
